---------------------------- MODULE Spec2Model ----------------------------
(***************************************************************************)
(* A model of bookworm's table-of-contents builder (FitzDocument.toc_tree), *)
(* of the structural navigation of the book viewer window                  *)
(* (BookViewerWindow.navigate_to_structural_element) and of the Piper      *)
(* speech engine with its background thread (PiperSpeechEngine).           *)
(***************************************************************************)
EXTENDS Integers, Sequences, FiniteSets, TLC

\* Bounds of the model.
MaxEntries == 4     \* longest outline list
MaxLevel == 3       \* deepest outline level
MaxPage == 2        \* largest page count of a document
TextLen == 4        \* length of the displayed text: positions 0..TextLen
RecursionLimit == 3 \* nested re-issues before Python raises RecursionError
MaxDocPages == 7    \* largest page count of a document whose pages are asked for
MaxCacheEntries == 2 \* longest outline of a document whose tree is read again
MaxCalls == 2       \* most calls of the speech engine's methods
MaxUtterance == 2   \* most elements of an utterance
MaxOpens == 2       \* most calls of open_uri
MaxNesting == 3     \* most handlers of the tree under way at once

\* The most semantic elements in the displayed text: one per two positions.
MaxElems == TextLen \div 2

VARIABLES
    toc_info,       \* self._ebook.getToC(): the outline, <<[level, start_page]>>
    num_pages,      \* len(self), the page count of the document
    toc_tree,       \* the cached root_item: [children, pager, title, object],
                    \* <<>> while not built
    toc_builds,     \* how many trees the body of toc_tree has built
    toc_read,       \* the tree the last read of toc_tree returned, <<>> before
    toc_raised,     \* TRUE once a read of toc_tree raised IndexError
    page_result,    \* what the last request for a page returned or raised
    reader_ready,   \* self.reader.ready: a document is loaded
    elements,       \* the semantic elements of the displayed text, document order
    line_starts,    \* the positions at which the lines of contentTextCtrl start
    options,        \* SEMANTIC_ELEMENT_OUTPUT_OPTIONS: kind -> presentation policy
    cursor,         \* the insertion point of contentTextCtrl
    latest,         \* __latest_structured_navigation_position, <<>> for None
    announced,      \* what the last navigation call told the user
    requested_at,   \* the insertion point the last navigation call began at,
                    \* -1 once the user has moved the caret since
    nav_raised,     \* TRUE once a navigation call ended in RecursionError
    bgQueue,        \* self._bgQueue: the tasks put and not yet taken
    unfinished,     \* the queue's count of unfinished tasks: puts less task_dones
    silence,        \* event_sink._silence_event is set
    sink_state,     \* EventSink._state
    bg,             \* the background thread: [pc, task]
    caller,         \* the thread that calls the engine: [pc, state]
    speech_options, \* self.tts.speech_options: [voice, rate, pitch, volume]
    notified,       \* the state of the last state_changed notification
    expected,       \* the bookmarks put on the queue and not taken off by stop()
    delivered,      \* the bookmarks handed to the bookmark_reached handlers
    history,        \* what happened so far: [calls, stops, late, raced,
                    \* raised_at, ran_after_raise, left]
    loader,         \* the ResourceLoader of the last open_uri: [pc, mode,
                    \* attempts, cancelled, result, opens]
    pending,        \* the calls handed to wx.CallAfter and not yet run
    view,           \* what was done to the view: [loaded, callbacks, prompts,
                    \* notified, unloads, failed, after_cancel]
    debug,          \* app.debug
    conf,           \* config.conf["general"]: [speak_page_number,
                    \* speak_section_title]
    frames,         \* the handlers under way, outermost first, each inside
                    \* mute_page_and_section_speech: [handler, opsc, ossc,
                    \* entry, pc]
    last_exit       \* how the last handler called for an event of the user
                    \* was left: "none" before, "ended" or "raised"

tocVars == <<toc_info, num_pages, toc_tree, toc_builds, toc_read, toc_raised,
             page_result>>
docVars == <<reader_ready, elements, line_starts, options>>
navVars == <<reader_ready, elements, line_starts, options,
             cursor, latest, announced, requested_at, nav_raised>>
queueVars == <<bgQueue, unfinished, silence, sink_state, bg, notified,
               expected, delivered>>
engineVars == <<bgQueue, unfinished, silence, sink_state, bg, caller,
                speech_options, notified, expected, delivered, history>>
loadVars == <<loader, pending, view, debug>>
muteVars == <<conf, frames, last_exit>>
viewerVars == <<loader, pending, view, debug, conf, frames, last_exit>>
vars == <<toc_info, num_pages, toc_tree, toc_builds, toc_read, toc_raised,
          page_result,
          reader_ready, elements, line_starts, options,
          cursor, latest, announced, requested_at, nav_raised,
          bgQueue, unfinished, silence, sink_state, bg, caller,
          speech_options, notified, expected, delivered, history,
          loader, pending, view, debug, conf, frames, last_exit>>

----------------------------------------------------------------------------
(* Sections are named by the index of their outline entry; 0 is root_item. *)

Last(s) == s[Len(s)]

Pager(first, last, current) == [first |-> first, last |-> last, current |-> current]

\* The while loop of lines 76-78: next_item is toc[nxt]; on a level mismatch
\* curr_index is incremented and toc[curr_index] is read, an index past the
\* end raising IndexError (0 here: next_item = None).
RECURSIVE ScanLoop(_, _, _, _)
ScanLoop(toc, curr_index, nxt, level) ==
    IF toc[nxt].level = level
    THEN nxt
    ELSE IF curr_index + 1 > Len(toc)
         THEN 0
         ELSE ScanLoop(toc, curr_index + 1, curr_index + 1, level)

\* NextItem taking the entry that follows, whatever its level.
NextItemAdjacent(toc, index, level) ==
    IF index + 1 > Len(toc) THEN 0 ELSE index + 1

\* The try block of lines 73-80: the index of next_item, 0 for None.
NextItem(toc, index, level) ==
    IF index + 1 > Len(toc) THEN 0 ELSE ScanLoop(toc, index, index + 1, level)

\* LastPage ending a section on the page before the next one's start page.
LastPageBeforeStart(toc, index, max_page) ==
    LET next_item == NextItem(toc, index, toc[index].level)
    IN  IF next_item = 0 THEN max_page ELSE toc[next_item].start_page - 1

\* Line 81.
LastPage(toc, index, max_page) ==
    LET next_item == NextItem(toc, index, toc[index].level)
    IN  IF next_item = 0 THEN max_page ELSE toc[next_item].start_page - 2

\* The loop of lines 89-95: descend into last children while parent_lvl > 1.
\* -1 stands for the IndexError of children[-1] on an empty list.
RECURSIVE Descend(_, _, _)
Descend(children, parent, parent_lvl) ==
    IF parent_lvl > 1
    THEN IF children[parent] = <<>>
         THEN -1
         ELSE Descend(children, Last(children[parent]), parent_lvl - 1)
    ELSE parent

\* AttachParent stopping one level short: it appends to the grandparent.
AttachParentShallow(children, level) ==
    IF level = 1
    THEN 0
    ELSE IF children[0] = <<>>
         THEN -1
         ELSE Descend(children, Last(children[0]), level - 2)

\* Lines 84-95: the section the new one is appended to, -1 for IndexError.
AttachParent(children, level) ==
    IF level = 1
    THEN 0
    ELSE IF children[0] = <<>>
         THEN -1
         ELSE Descend(children, Last(children[0]), level - 1)

\* self.metadata.title, and the title of the entry index of the outline.
DocumentTitle == "metadata.title"
EntryTitle(index) == <<"title", index>>

\* BuildEntry putting the new section before its parent's other children.
BuildEntryPrepend(tree, toc, index, max_page) ==
    LET level == toc[index].level
        start_page == toc[index].start_page
        pgn == Pager(start_page - 1, LastPage(toc, index, max_page), start_page - 1)
        parent == AttachParent(tree.children, level)
    IN  IF parent = -1
        THEN [tree EXCEPT !.raised = TRUE]
        ELSE [raised |-> FALSE,
              children |-> [tree.children EXCEPT ![parent] = <<index>> \o @],
              pager |-> [tree.pager EXCEPT ![index] = pgn],
              title |-> [tree.title EXCEPT ![index] = EntryTitle(index)]]

\* The body of the for loop, lines 72-95, for entry index of toc.
BuildEntry(tree, toc, index, max_page) ==
    LET level == toc[index].level
        start_page == toc[index].start_page
        pgn == Pager(start_page - 1, LastPage(toc, index, max_page), start_page - 1)
        parent == AttachParent(tree.children, level)
    IN  IF parent = -1
        THEN [tree EXCEPT !.raised = TRUE]
        ELSE [raised |-> FALSE,
              children |-> [tree.children EXCEPT ![parent] = Append(@, index)],
              pager |-> [tree.pager EXCEPT ![index] = pgn],
              title |-> [tree.title EXCEPT ![index] = EntryTitle(index)]]

RECURSIVE BuildFrom(_, _, _, _)
BuildFrom(tree, toc, index, max_page) ==
    IF index > Len(toc) \/ tree.raised
    THEN tree
    ELSE BuildFrom(BuildEntry(tree, toc, index, max_page), toc, index + 1, max_page)

\* BuildTocTree giving root the page count as its last page.
BuildTocTreeLastLen(toc, pages) ==
    LET max_page == pages - 1
        root_item == [raised |-> FALSE,
                      children |-> [s \in 0..Len(toc) |-> <<>>],
                      pager |-> [s \in 0..Len(toc) |-> Pager(0, pages, 0)],
                      title |-> [s \in 0..Len(toc) |-> DocumentTitle]]
    IN  BuildFrom(root_item, toc, 1, max_page)

\* FitzDocument.toc_tree, lines 66-96.
BuildTocTree(toc, pages) ==
    LET max_page == pages - 1
        root_item == [raised |-> FALSE,
                      children |-> [s \in 0..Len(toc) |-> <<>>],
                      pager |-> [s \in 0..Len(toc) |-> Pager(0, pages - 1, 0)],
                      title |-> [s \in 0..Len(toc) |-> DocumentTitle]]
    IN  BuildFrom(root_item, toc, 1, max_page)

\* index in self: the pages of the document are 0 .. len(self) - 1.
Contains(pages, index) == -1 < index /\ index < pages

\* No page has been requested yet.
NoRequest == [kind |-> "none", index |-> -1, page |-> -1]

\* PageAt returning the page of the underlying document without the test.
PageAtUnchecked(pages, index) ==
    [kind |-> "page", index |-> index, page |-> index]

\* FitzDocument.__getitem__, lines 29-32: the page, or PaginationError
\* "Page {index} is out of range." and no page.
PageAt(pages, index) ==
    IF ~Contains(pages, index)
    THEN [kind |-> "PaginationError", index |-> index, page |-> -1]
    ELSE [kind |-> "page", index |-> index, page |-> index]

\* Lines 61-62: the text of the page self[page_number]; the exception of
\* self[page_number] passes through.
PageContent(pages, page_number) ==
    LET page == PageAt(pages, page_number)
    IN  IF page.kind = "page" THEN [page EXCEPT !.kind = "content"] ELSE page

----------------------------------------------------------------------------
(* The outline and the page count are what the document adapter hands in.  *)

OutlineEntries(pages) == [level : 1..MaxLevel, start_page : 1..pages]

Outlines(pages) ==
    UNION {[1..n -> OutlineEntries(pages)] : n \in 0..MaxEntries}

Entry(level, start_page) == [level |-> level, start_page |-> start_page]

\* The outlines and page counts of the worked examples: a 50-page document
\* with Intro, Ch1, Ch1.1, Ch2, and a 30-page document with A, B, C.
Scenario50 ==
    [toc |-> <<Entry(1, 1), Entry(1, 3), Entry(2, 5), Entry(1, 12)>>, pages |-> 50]

Scenario30 ==
    [toc |-> <<Entry(1, 1), Entry(1, 10), Entry(1, 20)>>, pages |-> 30]

Scenarios == {Scenario50, Scenario30}

\* The page indices asked for: from two before the first page to two after
\* the last page of the largest document.
PageIndices == -2..MaxDocPages + 1

TocInit ==
    /\ \/ /\ num_pages \in 1..MaxPage
          /\ toc_info \in Outlines(num_pages)
       \/ \E sc \in Scenarios : num_pages = sc.pages /\ toc_info = sc.toc
    /\ toc_tree = <<>>
    /\ toc_builds = 0
    /\ toc_read = <<>>
    /\ toc_raised = FALSE
    /\ page_result = NoRequest

\* A read of the cached property that builds the tree and caches it: the
\* tree object is numbered by the build that made it.
TocTreeBuild ==
    /\ toc_tree = <<>>
    /\ LET t == BuildTocTree(toc_info, num_pages)
           root_item == [children |-> t.children, pager |-> t.pager,
                         title |-> t.title, object |-> toc_builds + 1]
       IN  /\ ~t.raised
           /\ toc_tree' = root_item
           /\ toc_read' = root_item
    /\ toc_builds' = toc_builds + 1
    /\ UNCHANGED <<toc_info, num_pages, toc_raised, page_result, navVars, engineVars, viewerVars>>

\* A read of the cached property whose build raises: nothing is cached.
TocTreeRaise ==
    /\ toc_tree = <<>>
    /\ BuildTocTree(toc_info, num_pages).raised
    /\ toc_raised' = TRUE
    /\ UNCHANGED <<toc_info, num_pages, toc_tree, toc_builds, toc_read,
                   page_result, navVars, engineVars, viewerVars>>

\* document[index].
GetItem(index) ==
    /\ page_result' = PageAt(num_pages, index)
    /\ UNCHANGED <<toc_info, num_pages, toc_tree, toc_builds, toc_read,
                   toc_raised, navVars, engineVars, viewerVars>>

\* document.get_page_content(page_number).
get_page_content(page_number) ==
    /\ page_result' = PageContent(num_pages, page_number)
    /\ UNCHANGED <<toc_info, num_pages, toc_tree, toc_builds, toc_read,
                   toc_raised, navVars, engineVars, viewerVars>>

NextToc == TocTreeBuild \/ TocTreeRaise

\* A read of toc_tree that runs the body again and returns a new tree.
UncachedRead(cache, builds, toc, pages) ==
    LET t == BuildTocTree(toc, pages)
    IN  [tree |-> [children |-> t.children, pager |-> t.pager,
                   title |-> t.title, object |-> builds + 1],
         builds |-> builds + 1]

\* Line 64, @cached_property: once the body has returned a tree, a read
\* returns that tree object and the body does not run.
CachedRead(cache, builds, toc, pages) == [tree |-> cache, builds |-> builds]

\* A read of toc_tree after the tree was built.
TocTreeRead ==
    /\ toc_tree # <<>>
    /\ LET read == CachedRead(toc_tree, toc_builds, toc_info, num_pages)
       IN  /\ toc_tree' = read.tree
           /\ toc_builds' = read.builds
           /\ toc_read' = read.tree
    /\ UNCHANGED <<toc_info, num_pages, toc_raised, page_result, navVars, engineVars, viewerVars>>

\* The navigator turns to a page of a section:
\* section.pager.current = page.
SetCurrent(section, page) ==
    /\ toc_tree # <<>>
    /\ section \in DOMAIN toc_tree.pager
    /\ toc_tree.pager[section].first <= page
    /\ page <= toc_tree.pager[section].last
    /\ toc_tree' = [toc_tree EXCEPT !.pager[section].current = page]
    /\ UNCHANGED <<toc_info, num_pages, toc_builds, toc_read, toc_raised,
                   page_result, navVars, engineVars, viewerVars>>

\* A document whose tree is read more than once.
CacheInit ==
    /\ num_pages \in 1..MaxPage
    /\ toc_info \in Outlines(num_pages)
    /\ Len(toc_info) <= MaxCacheEntries
    /\ toc_tree = <<>>
    /\ toc_builds = 0
    /\ toc_read = <<>>
    /\ toc_raised = FALSE
    /\ page_result = NoRequest

NextCache ==
    \/ NextToc
    \/ TocTreeRead
    \/ \E section \in 0..MaxCacheEntries, page \in 0..MaxPage - 1 :
           page < num_pages /\ SetCurrent(section, page)

\* A document whose pages are asked for, its outline left aside.
PagesInit ==
    /\ num_pages \in 1..MaxDocPages
    /\ toc_info = <<>>
    /\ toc_tree = <<>>
    /\ toc_builds = 0
    /\ toc_read = <<>>
    /\ toc_raised = FALSE
    /\ page_result = NoRequest

NextPages ==
    \/ \E index \in PageIndices : GetItem(index)
    \/ \E page_number \in PageIndices : get_page_content(page_number)

----------------------------------------------------------------------------
(* Structural navigation in the book viewer window.                        *)

None == <<>>

Positions == 0..TextLen

\* The kinds of the elements of a text, and the kinds a request may name:
\* "heading" asks for a heading of any level.
Kinds == {"h1", "link"}
ReqKinds == {"heading", "h1", "link"}

Matches(element_type, kind) ==
    \/ element_type = kind
    \/ element_type = "heading" /\ kind = "h1"

\* The element nearest to the anchor among those of indices found: the
\* first of them forward, the last backward; None if there is none.
Nearest(found, forward) ==
    IF found = {}
    THEN None
    ELSE LET k == IF forward
                  THEN CHOOSE x \in found : \A y \in found : x <= y
                  ELSE CHOOSE x \in found : \A y \in found : x >= y
         IN  <<<<elements[k].start, elements[k].stop>>, elements[k].kind>>

\* Locate taking an element that starts at the anchor, or ends at it, too.
LocateFromAnchor(element_type, forward, anchor) ==
    Nearest({k \in 1..Len(elements) :
                 /\ Matches(element_type, elements[k].kind)
                 /\ IF forward
                    THEN elements[k].start >= anchor
                    ELSE elements[k].stop <= anchor},
            forward)

\* Locate taking, backward, an element that starts before the anchor.
LocateByStart(element_type, forward, anchor) ==
    Nearest({k \in 1..Len(elements) :
                 /\ Matches(element_type, elements[k].kind)
                 /\ IF forward
                    THEN elements[k].start > anchor
                    ELSE elements[k].start < anchor},
            forward)

\* Locate taking the nearest element of any kind.
LocateAnyKind(element_type, forward, anchor) ==
    Nearest({k \in 1..Len(elements) :
                 IF forward
                 THEN elements[k].start > anchor
                 ELSE elements[k].stop < anchor},
            forward)

\* reader.get_semantic_element(element_type, forward, anchor): the nearest
\* element of the requested kind that lies strictly after the anchor
\* (forward: it starts after it) or strictly before it (backward: it ends
\* before it), as ((start, stop), actual_element_type); None if there is none.
Locate(element_type, forward, anchor) ==
    Nearest({k \in 1..Len(elements) :
                 /\ Matches(element_type, elements[k].kind)
                 /\ IF forward
                    THEN elements[k].start > anchor
                    ELSE elements[k].stop < anchor},
            forward)

\* contentTextCtrl.GetContainingLine(pos): the boundaries of the line of pos.
ContainingLine(pos) ==
    LET left == CHOOSE s \in line_starts :
                    s <= pos /\ \A t \in line_starts : t <= pos => t <= s
        after == {t \in line_starts : t > left}
        right == IF after = {}
                 THEN TextLen
                 ELSE CHOOSE t \in after : \A u \in after : t <= u
    IN  <<left, right>>

Silent == [msg |-> "silent", label |-> "", text |-> <<>>, position |-> -1]
Bell == [msg |-> "bell", label |-> "", text |-> <<>>, position |-> -1]

\* NoElementMessage saying "No next {item}" in either direction.
NoElementMessageNext(element_type, forward) ==
    [msg |-> "no_next", label |-> element_type, text |-> <<>>, position |-> -1]

\* Lines 614-620: the "No next/previous {item}" message.
NoElementMessage(element_type, forward) ==
    [msg |-> IF forward THEN "no_next" ELSE "no_previous",
     label |-> element_type, text |-> <<>>, position |-> -1]

\* Lines 589-600 and 607-613: the message "{text}: {item_type}" and the
\* position sent with reading_position_change.
ElementMessage(pos) ==
    LET start == pos[1][1]
        stop == pos[1][2]
        actual_element_type == pos[2]
    IN  [msg |-> "element",
         label |-> actual_element_type,
         text |-> IF options[actual_element_type].should_speak_whole_text
                  THEN ContainingLine(start + 1)
                  ELSE <<start, stop>>,
         position |-> start]

\* Lines 601-605.
TargetPosition(pos) ==
    LET start == pos[1][1]
        stop == pos[1][2]
    IN  IF ~options[pos[2]].move_to_start_of_line
        THEN start
        ELSE ContainingLine(stop - 1)[1]

\* IsRepeat never recognising a repeat.
IsRepeatNever(st, pos_info) == FALSE

\* IsRepeat comparing the position the request was made at, and no more.
IsRepeatFromOnly(st, pos_info) ==
    st.latest # None /\ st.latest[1] = pos_info[1]

\* The repeat test of line 585.
IsRepeat(st, pos_info) == st.latest = pos_info

\* ReissuePosition going back to the start of the found range.
ReissueFromStart(pos) == pos[1][1]

\* Line 586: where the insertion point is put before the request is re-issued.
ReissuePosition(pos) == pos[1][2]

\* PosInfo remembering the position the insertion point is moved to.
PosInfoAtTarget(current_insertion_point, pos) == <<TargetPosition(pos), pos>>

\* Line 584: what is compared with the memento and then kept as the memento.
PosInfo(current_insertion_point, pos) == <<current_insertion_point, pos>>

\* NavCall re-issuing a repeated request without moving the insertion point.
RECURSIVE NavCallNoAdvance(_, _, _, _)
NavCallNoAdvance(st, element_type, forward, depth) ==
    LET current_insertion_point == st.cursor
        pos == Locate(element_type, forward, current_insertion_point)
        pos_info == PosInfo(current_insertion_point, pos)
    IN  IF pos # None
        THEN IF IsRepeat(st, pos_info)
             THEN IF depth >= RecursionLimit
                  THEN [st EXCEPT !.raised = TRUE]
                  ELSE NavCallNoAdvance(st, element_type, forward, depth + 1)
             ELSE [cursor |-> TargetPosition(pos),
                   latest |-> pos_info,
                   announced |-> ElementMessage(pos),
                   raised |-> st.raised]
        ELSE [st EXCEPT !.announced = NoElementMessage(element_type, forward)]

\* navigate_to_structural_element, lines 576-620, on the state
\* st = [cursor, latest, announced, raised]; depth counts the nested calls
\* of line 587, which Python ends with RecursionError at its limit.
RECURSIVE NavCall(_, _, _, _)
NavCall(st, element_type, forward, depth) ==
    LET current_insertion_point == st.cursor
        pos == Locate(element_type, forward, current_insertion_point)
        pos_info == PosInfo(current_insertion_point, pos)
    IN  IF pos # None
        THEN IF IsRepeat(st, pos_info)
             THEN IF depth >= RecursionLimit
                  THEN [st EXCEPT !.cursor = ReissuePosition(pos), !.raised = TRUE]
                  ELSE NavCall([st EXCEPT !.cursor = ReissuePosition(pos)],
                               element_type, forward, depth + 1)
             ELSE [cursor |-> TargetPosition(pos),
                   latest |-> pos_info,
                   announced |-> ElementMessage(pos),
                   raised |-> st.raised]
        ELSE [st EXCEPT !.announced = NoElementMessage(element_type, forward)]

NavState ==
    [cursor |-> cursor, latest |-> latest, announced |-> announced,
     raised |-> nav_raised]

\* The texts a page can show: at most MaxElems elements in document order,
\* each a non-empty range of a kind that ends before the next one starts.
ElementRecords ==
    {e \in [kind : Kinds, start : Positions, stop : Positions] : e.start < e.stop}

ElementSeqs ==
    {s \in UNION {[1..n -> ElementRecords] : n \in 0..MaxElems} :
        \A k \in 1..Len(s) - 1 : s[k].stop <= s[k + 1].start}

\* The text is one line, or two lines broken in the middle.
LineStartSets == {{0}, {0, TextLen \div 2}}

\* A row of SEMANTIC_ELEMENT_OUTPUT_OPTIONS; the label is the kind itself.
Row(whole, line) ==
    [should_speak_whole_text |-> whole, move_to_start_of_line |-> line]

\* Two tables in which every combination of the two flags is the row of an
\* element kind, and the row of "heading" differs from that of "h1".
OptionTables ==
    {[k \in ReqKinds |->
         CASE k = "h1" -> Row(FALSE, FALSE)
           [] k = "link" -> Row(TRUE, FALSE)
           [] OTHER -> Row(TRUE, TRUE)],
     [k \in ReqKinds |->
         CASE k = "h1" -> Row(TRUE, TRUE)
           [] k = "link" -> Row(FALSE, TRUE)
           [] OTHER -> Row(FALSE, FALSE)]}

\* BookViewerWindow.__init__ (line 238) and a loaded document, or none.
NavInit ==
    /\ reader_ready \in BOOLEAN
    /\ IF reader_ready
       THEN /\ elements \in ElementSeqs
            /\ line_starts \in LineStartSets
       ELSE /\ elements = <<>>
            /\ line_starts = {0}
    /\ options \in OptionTables
    /\ cursor = 0
    /\ latest = None
    /\ announced = Silent
    /\ requested_at = -1
    /\ nav_raised = FALSE

\* Lines 573-575: no document is loaded.
NavigateNotReady ==
    /\ ~reader_ready
    /\ announced' = Bell
    /\ UNCHANGED <<tocVars, engineVars, viewerVars, docVars, cursor, latest, requested_at, nav_raised>>

\* navigate_to_structural_element(element_type, forward) with a document.
Navigate(element_type, forward) ==
    /\ reader_ready
    /\ ~nav_raised
    /\ LET r == NavCall(NavState, element_type, forward, 0)
       IN  /\ cursor' = r.cursor
           /\ latest' = r.latest
           /\ announced' = r.announced
           /\ nav_raised' = r.raised
    /\ requested_at' = cursor
    /\ UNCHANGED <<tocVars, engineVars, viewerVars, docVars>>

\* The user moves the caret in the text control (read back at line 576).
MoveCaret(to) ==
    /\ reader_ready
    /\ ~nav_raised
    /\ cursor' = to
    /\ requested_at' = -1
    /\ UNCHANGED <<tocVars, engineVars, viewerVars, docVars, latest, announced, nav_raised>>

\* Lines 534-539: the reader goes to the first of the clicked section with
\* the page and section speech muted; the page of the section is the one
\* shown, written anew with the insertion point at 0 (set_content, line 426).
onTOCItemClick ==
    /\ reader_ready
    /\ ~nav_raised
    /\ cursor' = 0
    /\ requested_at' = -1
    /\ UNCHANGED <<tocVars, engineVars, viewerVars, docVars, latest, announced, nav_raised>>

\* Line 797: the text of the range is spoken.
RangeMessage(start, end) ==
    [msg |-> "range", label |-> "", text |-> <<start, end>>, position |-> -1]

\* Lines 789-797; end_pos = -1 stands for None.
go_to_position(start_pos, end_pos) ==
    /\ reader_ready
    /\ ~nav_raised
    /\ LET range == IF end_pos = -1
                    THEN ContainingLine(start_pos)
                    ELSE <<start_pos, end_pos>>
       IN  /\ cursor' = range[1]
           /\ announced' = RangeMessage(range[1], range[2])
    /\ requested_at' = -1
    /\ UNCHANGED <<tocVars, engineVars, viewerVars, docVars, latest, nav_raised>>

NextNav ==
    \/ NavigateNotReady
    \/ \E element_type \in ReqKinds, forward \in BOOLEAN :
           Navigate(element_type, forward)
    \/ \E to \in Positions : MoveCaret(to)
    \/ onTOCItemClick
    \/ \E start_pos \in Positions : go_to_position(start_pos, -1)

----------------------------------------------------------------------------
(* The Piper speech engine: the caller thread puts tasks on a queue, the   *)
(* background thread takes them off and runs them.                         *)

\* None where a number is expected, and None where a voice id is expected.
Unset == -1
NoVoice == ""

SynthStates == {"ready", "busy", "paused"}

\* RATE_VALUE_MAP.get(rate, rate), lines 32-39 and 264, for the rates of the
\* model; "None" is no rate given and "not_set" is RateSpec.not_set.
RateValue(rate) ==
    CASE rate = "slow" -> 40
      [] rate = "fast" -> 80
      [] OTHER -> Unset

\* VOLUME_VALUE_MAP.get(volume, volume), lines 40-49 and 266.
VolumeValue(volume) ==
    CASE volume = "soft" -> 25
      [] volume = "loud" -> 75
      [] OTHER -> Unset

\* An element of an utterance: its kind and its content, which is the name
\* of a bookmark, the voice of start_voice or the (pitch, rate, volume) of
\* start_prosody.
Element(kind, name, voice, pitch, rate, volume) ==
    [kind |-> kind, name |-> name, voice |-> voice,
     pitch |-> pitch, rate |-> rate, volume |-> volume]

\* The elements that make tasks: the bookmark of position i is named i.
TaskElement(kind, i) ==
    Element(kind, IF kind = "bookmark" THEN i ELSE 0, NoVoice, Unset, "None", "None")

TaskKinds == {"text", "bookmark"}

TaskUtterances ==
    UNION {{[i \in 1..n |-> TaskElement(kinds[i], i)] : kinds \in [1..n -> TaskKinds]} :
           n \in 0..MaxUtterance}

\* An utterance that plays a sound file.
AudioUtterances == {<<TaskElement("audio", 1)>>}

\* The elements that change the speech options, a blank text and a pause
\* of no length.
OptionElements ==
    {Element("start_voice", 0, "v2", Unset, "None", "None"),
     Element("end_voice", 0, NoVoice, Unset, "None", "None"),
     Element("start_prosody", 0, NoVoice, 70, "fast", "None"),
     Element("start_prosody", 0, NoVoice, Unset, "not_set", "soft"),
     Element("end_prosody", 0, NoVoice, Unset, "None", "None"),
     Element("blank", 0, NoVoice, Unset, "None", "None"),
     Element("pause", 0, NoVoice, Unset, "None", "None")}

OptionUtterances ==
    UNION {[1..n -> OptionElements] : n \in 0..MaxUtterance}

\* A task on the queue: ProcessPiperTask(task, ...), AudioFileTask or
\* DoneSpeaking, stamped with the number of stop() calls that had returned
\* and with the number of the call that puts it.
Task(type, task, name, call) ==
    [type |-> type, task |-> task, name |-> name,
     epoch |-> history.stops, call |-> call]

NoTask == [type |-> "none", task |-> "None", name |-> 0, epoch |-> 0, call |-> 0]

\* Get taking the task that was put last.
GetNewest(queue) ==
    [item |-> queue[Len(queue)], queue |-> SubSeq(queue, 1, Len(queue) - 1)]

\* queue.Queue.get and get_nowait (lines 109 and 300) on a non-empty queue.
Get(queue) == [item |-> Head(queue), queue |-> Tail(queue)]

\* The state a task hands to on_state_changed: lines 77 and 96.
StateOf(task) == IF task.type = "DoneSpeaking" THEN "ready" ELSE "busy"

\* Where the task goes on after on_state_changed: lines 78-81 and 96.
AfterChange(task) == IF task.type = "DoneSpeaking" THEN "task_done" ELSE "act"

\* A task that raises ends the thread.
AfterRaiseUncaught == "dead"

\* Lines 112-115: the exception is logged and the loop goes on to task_done.
AfterRaise == "task_done"

\* Line 109: the thread takes the next task, waiting while there is none.
BgGet ==
    /\ bg.pc = "get"
    /\ bgQueue # <<>>
    /\ LET got == Get(bgQueue)
       IN  /\ bgQueue' = got.queue
           /\ bg' = [pc |-> "call", task |-> got.item]
    /\ UNCHANGED <<tocVars, navVars, viewerVars, unfinished, silence, sink_state, caller,
                   speech_options, notified, expected, delivered, history>>

\* Lines 61-62, 75-76 and 92-95: the task is called and reads the silence
\* flag; DoneSpeaking goes on whatever the flag is. A bookmark that returns
\* on the flag is no longer expected.
BgCall ==
    /\ bg.pc = "call"
    /\ bg' = [bg EXCEPT !.pc =
                 CASE bg.task.type = "DoneSpeaking" -> "test"
                   [] silence -> "task_done"
                   [] bg.task.type = "AudioFileTask" -> "act"
                   [] OTHER -> "test"]
    /\ expected' = IF silence /\ bg.task.task = "BookmarkTask"
                   THEN SelectSeq(expected,
                                  LAMBDA b : b # <<bg.task.call, bg.task.name>>)
                   ELSE expected
    /\ UNCHANGED <<tocVars, navVars, viewerVars, bgQueue, unfinished, silence, sink_state,
                   caller, speech_options, notified, delivered, history>>

\* Line 127 on the background thread: on_state_changed returns at once when
\* the state is the one it has.
BgTest ==
    /\ bg.pc = "test"
    /\ bg' = [bg EXCEPT !.pc = IF StateOf(bg.task) = sink_state
                               THEN AfterChange(bg.task)
                               ELSE "set"]
    /\ UNCHANGED <<tocVars, navVars, viewerVars, bgQueue, unfinished, silence, sink_state,
                   caller, speech_options, notified, expected, delivered, history>>

\* Line 135.
BgSet ==
    /\ bg.pc = "set"
    /\ sink_state' = StateOf(bg.task)
    /\ bg' = [bg EXCEPT !.pc = "notify"]
    /\ UNCHANGED <<tocVars, navVars, viewerVars, bgQueue, unfinished, silence, caller,
                   speech_options, notified, expected, delivered, history>>

\* Lines 136-138: the state_changed handlers are called.
BgNotify ==
    /\ bg.pc = "notify"
    /\ notified' = StateOf(bg.task)
    /\ bg' = [bg EXCEPT !.pc = AfterChange(bg.task)]
    /\ UNCHANGED <<tocVars, navVars, viewerVars, bgQueue, unfinished, silence, sink_state,
                   caller, speech_options, expected, delivered, history>>

\* A feed, a sound or a bookmark of a task put before a stop() that returned.
Late(task) == history.late \/ (task.task # "None" /\ task.epoch < history.stops)

\* Lines 63 and 78-81: the sound is played, the audio is fed to the player,
\* the bookmark is handed to the bookmark_reached handlers, or nothing is
\* done for a task of None.
BgAct ==
    /\ bg.pc = "act"
    /\ bg' = [bg EXCEPT !.pc = "task_done"]
    /\ delivered' = IF bg.task.task = "BookmarkTask"
                    THEN Append(delivered, <<bg.task.call, bg.task.name>>)
                    ELSE delivered
    /\ history' = [history EXCEPT
                      !.late = Late(bg.task),
                      !.ran_after_raise = @ \/ (history.raised_at > 0
                                                /\ bg.task.task = "BookmarkTask")]
    /\ UNCHANGED <<tocVars, navVars, viewerVars, bgQueue, unfinished, silence, sink_state,
                   caller, speech_options, notified, expected>>

\* Line 79: generate_audio raises.
BgRaise ==
    /\ bg.pc = "act"
    /\ bg.task.task = "AudioTask"
    /\ bg' = [bg EXCEPT !.pc = AfterRaise]
    /\ history' = [history EXCEPT
                      !.raised_at = IF @ = 0 THEN history.calls ELSE @]
    /\ UNCHANGED <<tocVars, navVars, viewerVars, bgQueue, unfinished, silence, sink_state,
                   caller, speech_options, notified, expected, delivered>>

\* Line 116.
BgTaskDone ==
    /\ bg.pc = "task_done"
    /\ unfinished' = unfinished - 1
    /\ bg' = [pc |-> "get", task |-> NoTask]
    /\ UNCHANGED <<tocVars, navVars, viewerVars, bgQueue, silence, sink_state, caller,
                   speech_options, notified, expected, delivered, history>>

\* BgThread.run, lines 107-116.
BgNext ==
    \/ BgGet
    \/ BgCall
    \/ BgTest
    \/ BgSet
    \/ BgNotify
    \/ BgAct
    \/ BgRaise
    \/ BgTaskDone

\* The caller thread between two calls.
IdleCaller == [pc |-> "idle", state |-> "ready"]

\* A call of a method of the engine begins: it is counted.
Called == [history EXCEPT !.calls = @ + 1]

\* Lines 254-256: start_voice.
StartVoice(opts, content) == [opts EXCEPT !.voice = content.voice]

\* Lines 257-259: end_voice.
EndVoice(opts, old_voice) ==
    IF old_voice # NoVoice THEN [opts EXCEPT !.voice = old_voice] ELSE opts

\* Lines 260-268: start_prosody.
StartProsody(opts, content) ==
    [opts EXCEPT
        !.pitch = IF content.pitch # Unset THEN content.pitch ELSE @,
        !.rate = IF RateValue(content.rate) # Unset
                 THEN RateValue(content.rate) ELSE @,
        !.volume = IF VolumeValue(content.volume) # Unset
                   THEN VolumeValue(content.volume) ELSE @]

\* Lines 269-276: end_prosody, old_prosody = (pitch, rate, volume).
EndProsody(opts, old_prosody) ==
    [opts EXCEPT
        !.pitch = IF old_prosody[1] # Unset THEN old_prosody[1] ELSE @,
        !.rate = IF old_prosody[2] # Unset THEN old_prosody[2] ELSE @,
        !.volume = IF old_prosody[3] # Unset THEN old_prosody[3] ELSE @]

\* Lines 244-253: the task of an element, "None" when it makes none.
ElementTask(element) ==
    CASE element.kind = "text" -> "AudioTask"
      [] element.kind = "bookmark" -> "BookmarkTask"
      [] element.kind = "pause" /\ element.name # 0 -> "AudioTask"
      [] OTHER -> "None"

\* Lines 242-285: one turn of the loop over the elements of the utterance,
\* on loop = [speech_options, old_voice, old_prosody, tasks, call]. A blank
\* text puts nothing, audio puts an AudioFileTask, every other element puts
\* a ProcessPiperTask, of None when the element made no task.
SpeakElement(loop, element) ==
    LET kind == element.kind
        opts == loop.speech_options
        task == IF kind = "audio"
                THEN Task("AudioFileTask", "AudioFile", 0, loop.call)
                ELSE Task("ProcessPiperTask", ElementTask(element),
                          element.name, loop.call)
    IN  [speech_options |->
             CASE kind = "start_voice" -> StartVoice(opts, element)
               [] kind = "end_voice" -> EndVoice(opts, loop.old_voice)
               [] kind = "start_prosody" -> StartProsody(opts, element)
               [] kind = "end_prosody" -> EndProsody(opts, loop.old_prosody)
               [] OTHER -> opts,
         old_voice |-> IF kind = "start_voice" THEN opts.voice ELSE loop.old_voice,
         old_prosody |-> IF kind = "start_prosody"
                         THEN <<opts.pitch, opts.rate, opts.volume>>
                         ELSE loop.old_prosody,
         tasks |-> IF kind = "blank" THEN loop.tasks ELSE Append(loop.tasks, task),
         call |-> loop.call]

\* The loop of lines 241-285 over the elements of todo.
RECURSIVE SpeakLoop(_, _)
SpeakLoop(loop, todo) ==
    IF todo = <<>>
    THEN loop
    ELSE SpeakLoop(SpeakElement(loop, Head(todo)), Tail(todo))

\* RestoreOptions leaving the speech options as the utterance left them.
KeepOptions(current, old_speech_options) == current

\* Line 292: self.tts.speech_options = old_speech_options.
RestoreOptions(current, old_speech_options) == old_speech_options

\* The bookmarks of the tasks of a queue, each with the call that put it.
Marks(queue) ==
    LET bookmarks == SelectSeq(queue, LAMBDA task : task.task = "BookmarkTask")
    IN  [i \in 1..Len(bookmarks) |-> <<bookmarks[i].call, bookmarks[i].name>>]

\* speak_utterance(utterance), lines 236-292: the silence flag is cleared,
\* the speech options are copied, the tasks of the elements and DoneSpeaking
\* are put on the queue and the speech options are restored.
speak_utterance(utterance) ==
    /\ caller.pc = "idle"
    /\ history.calls < MaxCalls
    /\ silence' = FALSE
    /\ LET old_speech_options == speech_options
           call == history.calls + 1
           done == SpeakLoop([speech_options |-> speech_options,
                              old_voice |-> NoVoice,
                              old_prosody |-> <<Unset, Unset, Unset>>,
                              tasks |-> <<>>, call |-> call], utterance)
           puts == Append(done.tasks, Task("DoneSpeaking", "None", 0, call))
       IN  /\ bgQueue' = bgQueue \o puts
           /\ unfinished' = unfinished + Len(puts)
           /\ expected' = expected \o Marks(puts)
           /\ speech_options' =
                  RestoreOptions(done.speech_options, old_speech_options)
           /\ history' = [Called EXCEPT !.left = done.speech_options]
    /\ UNCHANGED <<tocVars, navVars, viewerVars, sink_state, bg, caller, notified, delivered>>

\* The background thread is past the silence test of a ProcessPiperTask and
\* has not yet done what the task is for.
PastSilenceTest ==
    /\ bg.task.type = "ProcessPiperTask"
    /\ bg.pc \in {"test", "set", "notify", "act"}

\* Lines 296-297: stop() sets the silence flag and stops the player.
Stop ==
    /\ caller.pc = "idle"
    /\ history.calls < MaxCalls
    /\ silence' = TRUE
    /\ caller' = [caller EXCEPT !.pc = "drain"]
    /\ history' = [Called EXCEPT !.raced = @ \/ PastSilenceTest]
    /\ UNCHANGED <<tocVars, navVars, viewerVars, bgQueue, unfinished, sink_state, bg,
                   speech_options, notified, expected, delivered>>

\* Lines 298-301: a task is taken off the queue and marked done.
StopDrain ==
    /\ caller.pc = "drain"
    /\ bgQueue # <<>>
    /\ LET got == Get(bgQueue)
           mark == <<got.item.call, got.item.name>>
       IN  /\ bgQueue' = got.queue
           /\ expected' = IF got.item.task = "BookmarkTask"
                          THEN SelectSeq(expected, LAMBDA b : b # mark)
                          ELSE expected
    /\ unfinished' = unfinished - 1
    /\ UNCHANGED <<tocVars, navVars, viewerVars, silence, sink_state, bg, caller,
                   speech_options, notified, delivered, history>>

\* Lines 302-304: the queue is empty and DoneSpeaking is put.
StopPut ==
    /\ caller.pc = "drain"
    /\ bgQueue = <<>>
    /\ bgQueue' = <<Task("DoneSpeaking", "None", 0, history.calls)>>
    /\ unfinished' = unfinished + 1
    /\ caller' = [caller EXCEPT !.pc = "join"]
    /\ UNCHANGED <<tocVars, navVars, viewerVars, silence, sink_state, bg, speech_options,
                   notified, expected, delivered, history>>

\* JoinReturns not waiting for the tasks.
JoinReturnsAtOnce(unfinished_tasks) == TRUE

\* queue.Queue.join, line 305: it returns when no task is unfinished.
JoinReturns(unfinished_tasks) == unfinished_tasks = 0

\* Line 305: stop() returns.
StopJoin ==
    /\ caller.pc = "join"
    /\ JoinReturns(unfinished)
    /\ caller' = [caller EXCEPT !.pc = "idle"]
    /\ history' = [history EXCEPT !.stops = @ + 1]
    /\ UNCHANGED <<tocVars, navVars, viewerVars, queueVars, speech_options>>

\* Lines 307-309: pause() pauses the player and calls on_state_changed.
pause ==
    /\ caller.pc = "idle"
    /\ history.calls < MaxCalls
    /\ caller' = [caller EXCEPT !.pc = "test", !.state = "paused"]
    /\ history' = Called
    /\ UNCHANGED <<tocVars, navVars, viewerVars, queueVars, speech_options>>

\* Lines 311-313: resume().
resume ==
    /\ caller.pc = "idle"
    /\ history.calls < MaxCalls
    /\ caller' = [caller EXCEPT !.pc = "test", !.state = "busy"]
    /\ history' = Called
    /\ UNCHANGED <<tocVars, navVars, viewerVars, queueVars, speech_options>>

\* Line 127 on the caller thread.
CallerTest ==
    /\ caller.pc = "test"
    /\ caller' = IF caller.state = sink_state
                 THEN IdleCaller
                 ELSE [caller EXCEPT !.pc = "set"]
    /\ UNCHANGED <<tocVars, navVars, viewerVars, queueVars, speech_options, history>>

\* Line 135 on the caller thread.
CallerSet ==
    /\ caller.pc = "set"
    /\ sink_state' = caller.state
    /\ caller' = [caller EXCEPT !.pc = "notify"]
    /\ UNCHANGED <<tocVars, navVars, viewerVars, bgQueue, unfinished, silence, bg,
                   speech_options, notified, expected, delivered, history>>

\* Lines 136-138 on the caller thread.
CallerNotify ==
    /\ caller.pc = "notify"
    /\ notified' = caller.state
    /\ caller' = IdleCaller
    /\ UNCHANGED <<tocVars, navVars, viewerVars, bgQueue, unfinished, silence, sink_state,
                   bg, speech_options, expected, delivered, history>>

\* The steps that carry on the call the caller thread is in.
CallerContinue ==
    \/ StopDrain
    \/ StopPut
    \/ StopJoin
    \/ CallerTest
    \/ CallerSet
    \/ CallerNotify

\* Nothing has happened; left is the speech options as the loop of the
\* last speak_utterance left them, before they were restored.
NoHistory(opts) ==
    [calls |-> 0, stops |-> 0, late |-> FALSE, raced |-> FALSE,
     raised_at |-> 0, ran_after_raise |-> FALSE, left |-> opts]

SpeechOptions(voice, rate, pitch, volume) ==
    [voice |-> voice, rate |-> rate, pitch |-> pitch, volume |-> volume]

\* Lines 120-124 and 155-164: the engine as it is constructed, with the
\* speech options opts.
EngineInit(opts) ==
    /\ bgQueue = <<>>
    /\ unfinished = 0
    /\ silence = TRUE
    /\ sink_state = "ready"
    /\ bg = [pc |-> "get", task |-> NoTask]
    /\ speech_options = opts
    /\ caller = IdleCaller
    /\ notified = "none"
    /\ expected = <<>>
    /\ delivered = <<>>
    /\ history = NoHistory(opts)

\* The engine left alone.
EngineIdle == EngineInit(SpeechOptions("v1", 60, 50, 50))

\* The engine called with utterances that make tasks.
NextPiper ==
    \/ BgNext
    \/ CallerContinue
    \/ \E utterance \in TaskUtterances \cup AudioUtterances :
           speak_utterance(utterance)
    \/ Stop
    \/ pause
    \/ resume

\* The engine called with speak_utterance and stop() only.
NextStop ==
    \/ BgNext
    \/ StopDrain
    \/ StopPut
    \/ StopJoin
    \/ \E utterance \in TaskUtterances : speak_utterance(utterance)
    \/ Stop

\* The engine called with speak_utterance and resume() only: neither
\* stop() nor pause() is called.
NextSpeak ==
    \/ BgNext
    \/ CallerTest
    \/ CallerSet
    \/ CallerNotify
    \/ \E utterance \in TaskUtterances : speak_utterance(utterance)
    \/ resume

\* One call of speak_utterance with an utterance that changes the speech
\* options, before the background thread takes a task.
OptionsInit ==
    \E voice \in {"v1", "v2"}, rate \in {40, 60}, pitch \in {50, 70},
       volume \in {25, 50} :
        EngineInit(SpeechOptions(voice, rate, pitch, volume))

NextOptions ==
    \E utterance \in OptionUtterances :
        history.calls = 0 /\ speak_utterance(utterance)

----------------------------------------------------------------------------
(* Opening a document: open_uri makes a ResourceLoader, which reads the    *)
(* document at once or on a worker thread behind a waiting dialog.         *)

\* What resolver.read_document() does: it returns a document or raises; an
\* exception is named by the first except clause of lines 107-159 that
\* catches it.
ReadOutcomes ==
    {"document", "DecryptionRequired", "ResourceDoesNotExist",
     "DocumentRestrictedError", "UnsupportedDocumentError", "ReaderError",
     "Exception"}

\* The title of the message of the except clause that catches the exception.
Title(exception) ==
    CASE exception = "ResourceDoesNotExist" -> "Document not found"
      [] exception = "DocumentRestrictedError" -> "Document Restricted"
      [] exception = "UnsupportedDocumentError" -> "Unsupported Document Format"
      [] exception = "ReaderError" -> "Error Opening Document"
      [] OTHER -> "Error Openning Document"

\* A call handed to wx.CallAfter.
CallAfter(call, title) == [call |-> call, title |-> title]

\* Finally scheduling the unload whatever happened.
FinallyAlways(_last_exception, scheduled) ==
    Append(scheduled, CallAfter("unloadCurrentEbook", ""))

\* Lines 173-175: the finally clause schedules unloadCurrentEbook when an
\* exception was caught.
Finally(_last_exception, scheduled) ==
    IF _last_exception # "None"
    THEN Append(scheduled, CallAfter("unloadCurrentEbook", ""))
    ELSE scheduled

\* resolve_document, lines 103-177, for what read_document does: what it
\* returns, what it raises and what it hands to wx.CallAfter.
resolve_document(outcome, in_debug) ==
    LET _last_exception ==
            IF outcome \in {"document", "DecryptionRequired"}
            THEN "None"
            ELSE outcome
        caught == IF _last_exception # "None"
                  THEN <<CallAfter("notify_user", Title(outcome))>>
                  ELSE <<>>
    IN  [returns |-> IF outcome = "document" THEN "document" ELSE "None",
         raises |-> CASE outcome = "DecryptionRequired" -> "DecryptionRequired"
                      [] _last_exception # "None" /\ in_debug -> _last_exception
                      [] OTHER -> "None",
         scheduled |-> Finally(_last_exception, caught)]

NoResult == [returns |-> "None", raises |-> "None"]

\* Lines 445-463 and notify_user, as far as the view keeps count of them.
Unloaded(v) == [v EXCEPT !.unloads = @ + 1]
Notified(v) == [v EXCEPT !.notified = @ + 1]

\* ResourceLoader.load, lines 187-192; open_uri always gives a callback.
Load(v, document, cancelled) ==
    IF document = "None" \/ cancelled
    THEN v
    ELSE [v EXCEPT !.loaded = @ + 1, !.callbacks = @ + 1]

\* decrypt_document up to the password prompt, lines 392-406.
Decrypt(v, n_attempts) ==
    [(IF n_attempts > 0 THEN Notified(v) ELSE v) EXCEPT !.prompts = @ + 1]

\* What the caller of resolve_document does with its result: lines 90-92
\* and 389-390 when read at once, lines 180-185 in the dialog's callback.
\* An exception other than DecryptionRequired leaves the handler.
Completed(v, result, n_attempts, cancelled) ==
    CASE result.raises = "DecryptionRequired" ->
             [pc |-> "password", view |-> Decrypt(v, n_attempts)]
      [] result.raises # "None" -> [pc |-> "idle", view |-> v]
      [] OTHER -> [pc |-> "idle", view |-> Load(v, result.returns, cancelled)]

\* Lines 78-88: UriResolver(uri) raises ReaderError and the user is told.
OpenUnresolvable(n_attempts) ==
    /\ loader' = [pc |-> "idle", mode |-> "sync", attempts |-> n_attempts,
                  cancelled |-> FALSE, outcome |-> "unresolvable",
                  result |-> NoResult, opens |-> loader.opens + 1]
    /\ view' = Notified(Unloaded(view))
    /\ UNCHANGED pending

\* Lines 384-390 and 89-92: the document is read at once.
OpenSync(outcome, n_attempts) ==
    LET result == resolve_document(outcome, debug)
        then == Completed(Unloaded(view),
                          [returns |-> result.returns, raises |-> result.raises],
                          n_attempts, FALSE)
    IN  /\ loader' = [pc |-> then.pc, mode |-> "sync", attempts |-> n_attempts,
                      cancelled |-> FALSE, outcome |-> outcome,
                      result |-> [returns |-> result.returns,
                                  raises |-> result.raises],
                      opens |-> loader.opens + 1]
        /\ view' = then.view
        /\ pending' = pending \o result.scheduled

\* Lines 384-388 and 93-101: the waiting dialog is shown and the document
\* is read on a worker thread.
OpenAsync(n_attempts) ==
    /\ loader' = [pc |-> "reading", mode |-> "async", attempts |-> n_attempts,
                  cancelled |-> FALSE, outcome |-> "none",
                  result |-> NoResult, opens |-> loader.opens + 1]
    /\ view' = Unloaded(view)
    /\ UNCHANGED pending

\* open_uri(uri, callback), lines 383-390, for a uri that is or is not
\* resolved, is read at once or not, and carries n_attempts.
open_uri(resolves, mode, outcome, n_attempts) ==
    /\ loader.opens < MaxOpens
    /\ CASE ~resolves -> OpenUnresolvable(n_attempts)
         [] mode = "sync" -> OpenSync(outcome, n_attempts)
         [] OTHER -> OpenAsync(n_attempts)
    /\ UNCHANGED <<tocVars, navVars, engineVars, debug, muteVars>>

\* The user opens a document.
UserOpens(resolves, mode, outcome) ==
    /\ loader.pc = "idle"
    /\ open_uri(resolves, mode, outcome, 0)

\* Lines 94-101 and 103-177: the worker thread ends resolve_document and
\* the dialog is to call _document_read_callback with the future.
ReadCompletes(outcome) ==
    /\ loader.pc = "reading"
    /\ LET result == resolve_document(outcome, debug)
       IN  /\ loader' = [loader EXCEPT
                            !.pc = "completed",
                            !.outcome = outcome,
                            !.result = [returns |-> result.returns,
                                        raises |-> result.raises]]
           /\ pending' = pending \o result.scheduled
    /\ UNCHANGED <<tocVars, navVars, engineVars, view, debug, muteVars>>

\* Lines 97-98: the user dismisses the waiting dialog before the read has
\* ended and the cancellation is requested.
Dismiss ==
    /\ loader.pc = "reading"
    /\ ~loader.cancelled
    /\ loader' = [loader EXCEPT !.cancelled = TRUE]
    /\ UNCHANGED <<tocVars, navVars, engineVars, pending, view, debug, muteVars>>

\* _document_read_callback(uri, future), lines 179-185.
document_read_callback ==
    /\ loader.pc = "completed"
    /\ LET then == Completed(view, loader.result, loader.attempts,
                             loader.cancelled)
       IN  /\ loader' = [loader EXCEPT !.pc = then.pc]
           /\ view' = then.view
    /\ UNCHANGED <<tocVars, navVars, engineVars, pending, debug, muteVars>>

\* Lines 406-408: the user gives no password.
PasswordRefused ==
    /\ loader.pc = "password"
    /\ loader' = [loader EXCEPT !.pc = "idle"]
    /\ UNCHANGED <<tocVars, navVars, engineVars, pending, view, debug, muteVars>>

\* Lines 409-416: the user gives a password and the copy of the uri, with
\* n_attempts set, is opened.
PasswordGiven(outcome) ==
    /\ loader.pc = "password"
    /\ open_uri(TRUE, loader.mode, outcome, 1)

\* The GUI thread runs the oldest call handed to wx.CallAfter.
RunPending ==
    /\ pending # <<>>
    /\ pending' = Tail(pending)
    /\ view' = IF Head(pending).call = "notify_user"
               THEN Notified(view)
               ELSE Unloaded(view)
    /\ UNCHANGED <<tocVars, navVars, engineVars, loader, debug, muteVars>>

NoView == [loaded |-> 0, callbacks |-> 0, prompts |-> 0, notified |-> 0,
           unloads |-> 0]

IdleLoader ==
    [pc |-> "idle", mode |-> "sync", attempts |-> 0, cancelled |-> FALSE,
     outcome |-> "none", result |-> NoResult, opens |-> 0]

\* No document has been opened yet.
LoadIdle ==
    /\ loader = IdleLoader
    /\ pending = <<>>
    /\ view = NoView
    /\ debug = FALSE

LoadInit ==
    /\ loader = IdleLoader
    /\ pending = <<>>
    /\ view = NoView
    /\ debug \in BOOLEAN

NextLoad ==
    \/ \E resolves \in BOOLEAN, mode \in {"sync", "async"},
          outcome \in ReadOutcomes : UserOpens(resolves, mode, outcome)
    \/ \E outcome \in ReadOutcomes : ReadCompletes(outcome)
    \/ Dismiss
    \/ document_read_callback
    \/ PasswordRefused
    \/ \E outcome \in ReadOutcomes : PasswordGiven(outcome)
    \/ RunPending

----------------------------------------------------------------------------
(* The handlers of the table-of-contents tree, which run their body inside *)
(* mute_page_and_section_speech.                                           *)

MutingHandlers == {"onTOCItemClick", "onTocTreeFocus"}

Settings(speak_page_number, speak_section_title) ==
    [speak_page_number |-> speak_page_number,
     speak_section_title |-> speak_section_title]

\* Lines 565-566.
Muted == Settings(FALSE, FALSE)

\* Restore writing back the page setting only.
RestorePageOnly(current, opsc, ossc) ==
    Settings(opsc, current.speak_section_title)

\* Lines 569-570: both settings are written back.
Restore(current, opsc, ossc) == Settings(opsc, ossc)

\* The handler that runs innermost.
Top == frames[Len(frames)]

\* Lines 526 and 535 with 562-567: a handler enters the context. The
\* settings are read into opsc and ossc and both are set to False. The
\* handler is called for an event of the user, or from inside the body of
\* the handler under way, whose SetFocus (lines 532, 539) raises an event.
\* onTocTreeFocus enters only when its condition (lines 518-525) holds and
\* does nothing otherwise.
MuteEnter(handler) ==
    /\ Len(frames) < MaxNesting
    /\ frames # <<>> => Top.pc = "body"
    /\ frames' = Append(frames, [handler |-> handler,
                                 opsc |-> conf.speak_page_number,
                                 ossc |-> conf.speak_section_title,
                                 entry |-> conf,
                                 pc |-> "body"])
    /\ conf' = Muted
    /\ UNCHANGED <<tocVars, navVars, engineVars, loadVars, last_exit>>

\* Lines 527-532 and 536-539: the body ends.
BodyEnds ==
    /\ frames # <<>>
    /\ Top.pc = "body"
    /\ frames' = [frames EXCEPT ![Len(frames)].pc = "ended"]
    /\ UNCHANGED <<tocVars, navVars, engineVars, loadVars, conf, last_exit>>

\* Lines 527-532 and 536-539: a statement of the body raises.
BodyRaises ==
    /\ frames # <<>>
    /\ Top.pc = "body"
    /\ frames' = [frames EXCEPT ![Len(frames)].pc = "raised"]
    /\ UNCHANGED <<tocVars, navVars, engineVars, loadVars, conf, last_exit>>

\* Lines 568-570: the finally clause runs and the handler is left. An
\* exception goes on into the body of the handler around it when the
\* contexts are nested directly (propagates), and ends at the event loop
\* when the inner handler was called for an event.
MuteExit(propagates) ==
    /\ frames # <<>>
    /\ Top.pc \in {"ended", "raised"}
    /\ propagates => Top.pc = "raised" /\ Len(frames) > 1
    /\ conf' = Restore(conf, Top.opsc, Top.ossc)
    /\ LET outer == SubSeq(frames, 1, Len(frames) - 1)
       IN  frames' = IF propagates
                     THEN [outer EXCEPT ![Len(outer)].pc = "raised"]
                     ELSE outer
    /\ last_exit' = IF Len(frames) = 1 THEN Top.pc ELSE last_exit
    /\ UNCHANGED <<tocVars, navVars, engineVars, loadVars>>

\* No handler of the tree is under way and both settings are on.
MuteIdle ==
    /\ conf = Settings(TRUE, TRUE)
    /\ frames = <<>>
    /\ last_exit = "none"

MuteInit ==
    /\ conf \in {Settings(p, s) : p \in BOOLEAN, s \in BOOLEAN}
    /\ frames = <<>>
    /\ last_exit = "none"

NextMute ==
    \/ \E handler \in MutingHandlers : MuteEnter(handler)
    \/ BodyEnds
    \/ BodyRaises
    \/ \E propagates \in BOOLEAN : MuteExit(propagates)

\* Nothing is opened and no handler of the tree runs.
ViewerIdle == LoadIdle /\ MuteIdle

----------------------------------------------------------------------------
\* No document in the viewer: what the builder's runs leave alone.
NavIdle ==
    /\ reader_ready = FALSE
    /\ elements = <<>>
    /\ line_starts = {0}
    /\ options = [k \in ReqKinds |-> Row(FALSE, FALSE)]
    /\ cursor = 0
    /\ latest = None
    /\ announced = Silent
    /\ requested_at = -1
    /\ nav_raised = FALSE

\* No outline: what the navigation's runs leave alone.
TocIdle ==
    /\ num_pages = 1
    /\ toc_info = <<>>
    /\ toc_tree = <<>>
    /\ toc_builds = 0
    /\ toc_read = <<>>
    /\ toc_raised = FALSE
    /\ page_result = NoRequest

InitToc == TocInit /\ NavIdle /\ EngineIdle /\ ViewerIdle

SpecToc == InitToc /\ [][NextToc]_vars

InitPages == PagesInit /\ NavIdle /\ EngineIdle /\ ViewerIdle

SpecPages == InitPages /\ [][NextPages]_vars

\* Repeated reads of the tree of a document, the viewer left aside.
InitCache == CacheInit /\ NavIdle /\ EngineIdle /\ ViewerIdle
SpecCache == InitCache /\ [][NextCache]_vars

InitNav == TocIdle /\ NavInit /\ EngineIdle /\ ViewerIdle

SpecNav == InitNav /\ [][NextNav]_vars

\* The speech engine and its background thread, the viewer left aside.
InitPiper == TocIdle /\ NavIdle /\ EngineIdle /\ ViewerIdle
SpecPiper == InitPiper /\ [][NextPiper]_vars

\* The threads are scheduled: a thread that can take a step takes one.
Scheduled == WF_vars(BgNext) /\ WF_vars(CallerContinue)

SpecStopFair == InitPiper /\ [][NextStop]_vars /\ Scheduled

SpecSpeakFair == InitPiper /\ [][NextSpeak]_vars /\ Scheduled

\* speak_utterance with the elements that change the speech options.
InitOptions == TocIdle /\ NavIdle /\ OptionsInit /\ ViewerIdle
SpecOptions == InitOptions /\ [][NextOptions]_vars

\* Documents are opened, the rest left aside.
InitLoad == TocIdle /\ NavIdle /\ EngineIdle /\ LoadInit /\ MuteIdle
SpecLoad == InitLoad /\ [][NextLoad]_vars

\* The handlers of the table-of-contents tree, the rest left aside.
InitMute == TocIdle /\ NavIdle /\ EngineIdle /\ LoadIdle /\ MuteInit
SpecMute == InitMute /\ [][NextMute]_vars

Init == InitNav

Next == NextNav

Spec == SpecNav

----------------------------------------------------------------------------
(* Properties of the table-of-contents builder.                            *)

TocBuilt == toc_tree # <<>>

Entries == 1..Len(toc_info)

Min(S) == CHOOSE x \in S : \A y \in S : x <= y
Max(S) == CHOOSE x \in S : \A y \in S : x >= y

RECURSIVE Ascending(_)
Ascending(S) == IF S = {} THEN <<>> ELSE <<Min(S)>> \o Ascending(S \ {Min(S)})

\* Entries arrive in depth-first order: the first is of level 1 and no entry
\* is more than one level deeper than the entry before it.
ValidDepthFirst ==
    /\ Len(toc_info) > 0 => toc_info[1].level = 1
    /\ \A i \in Entries : i > 1 => toc_info[i].level <= toc_info[i - 1].level + 1

\* The entries after i that have i's level.
SameLevelAfter(i) ==
    {j \in Entries : j > i /\ toc_info[j].level = toc_info[i].level}

\* The nearest preceding entry one level up, 0 (root) for a level-1 entry.
NearestParent(i) ==
    IF toc_info[i].level = 1
    THEN 0
    ELSE Max({j \in Entries : j < i /\ toc_info[j].level = toc_info[i].level - 1})

\* The section of the built tree that holds i among its children.
TreeParent(i) ==
    CHOOSE p \in DOMAIN toc_tree.children :
        \E k \in 1..Len(toc_tree.children[p]) : toc_tree.children[p][k] = i

\* The section that follows i among the children of i's parent, 0 if none.
TreeNextSibling(i) ==
    LET sibs == toc_tree.children[TreeParent(i)]
        k == CHOOSE k \in 1..Len(sibs) : sibs[k] = i
    IN  IF k < Len(sibs) THEN sibs[k + 1] ELSE 0

\* C1: building toc_tree never raises, whatever the levels of the outline.
C1_NeverRaises == toc_raised = FALSE

\* C2: every built section has first = start_page - 1, and last = start_page
\* of the next entry of the same level - 2, or num_pages - 1 without one.
C2_PageRange ==
    TocBuilt =>
        \A i \in Entries :
            /\ toc_tree.pager[i].first = toc_info[i].start_page - 1
            /\ toc_tree.pager[i].last =
                   IF SameLevelAfter(i) = {}
                   THEN num_pages - 1
                   ELSE toc_info[Min(SameLevelAfter(i))].start_page - 2

\* C2's case: an entry bounded by a same-level entry beyond a deeper one,
\* and an entry with no same-level entry after it.
C2_Witness ==
    /\ TocBuilt
    /\ \E i \in Entries : SameLevelAfter(i) # {} /\ Min(SameLevelAfter(i)) > i + 1
    /\ \E i \in Entries : SameLevelAfter(i) = {}

\* C3: every section of the built tree, root included, has
\* first <= current <= last, with current = first.
C3_PagerOrdered ==
    TocBuilt =>
        \A s \in DOMAIN toc_tree.pager :
            /\ toc_tree.pager[s].first <= toc_tree.pager[s].current
            /\ toc_tree.pager[s].current <= toc_tree.pager[s].last
            /\ toc_tree.pager[s].current = toc_tree.pager[s].first

\* C4: for an outline in depth-first order, first and last of every non-root
\* section lie within the [first, last] of its parent.
C4_ChildWithinParent ==
    (TocBuilt /\ ValidDepthFirst) =>
        \A i \in Entries :
            LET c == toc_tree.pager[i]
                p == toc_tree.pager[TreeParent(i)]
            IN  /\ p.first <= c.first /\ c.first <= p.last
                /\ p.first <= c.last /\ c.last <= p.last

\* C5: the children of root are the level-1 entries in outline order; for an
\* outline in depth-first order the children of every section are the entries
\* whose nearest preceding entry one level up it is, in outline order.
C5_Attachment ==
    TocBuilt =>
        /\ toc_tree.children[0] = Ascending({i \in Entries : toc_info[i].level = 1})
        /\ ValidDepthFirst =>
               \A p \in Entries :
                   toc_tree.children[p] = Ascending({i \in Entries : NearestParent(i) = p})

\* C5's case: levels 1, 2, 1; the second entry is the only child of the first.
C5_Witness ==
    /\ TocBuilt
    /\ Len(toc_info) = 3
    /\ toc_info[1].level = 1 /\ toc_info[2].level = 2 /\ toc_info[3].level = 1
    /\ toc_tree.children[1] = <<2>>
    /\ toc_tree.children[0] = <<1, 3>>

\* C6: for an outline in depth-first order, the entry that bounds the last
\* page of a section is the next sibling of that section in the built tree.
C6_BoundIsNextSibling ==
    (TocBuilt /\ ValidDepthFirst) =>
        \A i \in Entries :
            toc_tree.pager[i].last =
                IF TreeNextSibling(i) = 0
                THEN num_pages - 1
                ELSE toc_info[TreeNextSibling(i)].start_page - 2

\* The first and last page of the section of entry i of the built tree.
PageRange(i) == <<toc_tree.pager[i].first, toc_tree.pager[i].last>>

\* C17: for the 50-page document with the outline Intro, Ch1, Ch1.1, Ch2,
\* root has three children, Ch1 has the one child Ch1.1, and the page ranges
\* of Ch1, Ch1.1 and Ch2 are [2,10], [4,10] and [11,49].
C17_Scenario50 ==
    (TocBuilt /\ toc_info = Scenario50.toc /\ num_pages = Scenario50.pages) =>
        /\ toc_tree.children[0] = <<1, 2, 4>>
        /\ toc_tree.children[2] = <<3>>
        /\ PageRange(2) = <<2, 10>>
        /\ PageRange(3) = <<4, 10>>
        /\ PageRange(4) = <<11, 49>>

\* C18 as stated: for the entries A, B, C of level 1 on pages 1, 10 and 20
\* of 30, A spans [0,7], B spans [9,17] and C spans [19,29].
C18_Scenario30AsStated ==
    (TocBuilt /\ toc_info = Scenario30.toc /\ num_pages = Scenario30.pages) =>
        /\ PageRange(1) = <<0, 7>>
        /\ PageRange(2) = <<9, 17>>
        /\ PageRange(3) = <<19, 29>>

\* C18 amended: A spans [0,8], B spans [9,18] and C spans [19,29].
C18_Scenario30 ==
    (TocBuilt /\ toc_info = Scenario30.toc /\ num_pages = Scenario30.pages) =>
        /\ PageRange(1) = <<0, 8>>
        /\ PageRange(2) = <<9, 18>>
        /\ PageRange(3) = <<19, 29>>

\* C18's case: the tree of the 30-page document has been built.
C18_Witness ==
    /\ TocBuilt
    /\ toc_info = Scenario30.toc
    /\ num_pages = Scenario30.pages
    /\ toc_tree.children[0] = <<1, 2, 3>>

\* C19: for an empty outline the build does not raise, and the tree built is
\* a root with the title of the document, the pager (0, num_pages - 1, 0)
\* and no children.
C19_EmptyOutline ==
    toc_info = <<>> =>
        /\ ~toc_raised
        /\ ~BuildTocTree(toc_info, num_pages).raised
        /\ TocBuilt =>
               /\ DOMAIN toc_tree.children = {0}
               /\ toc_tree.children[0] = <<>>
               /\ toc_tree.title[0] = "metadata.title"
               /\ toc_tree.pager[0] =
                      [first |-> 0, last |-> num_pages - 1, current |-> 0]

\* C19's case: the tree of a document of several pages with an empty
\* outline has been built.
C19_Witness ==
    /\ TocBuilt
    /\ toc_info = <<>>
    /\ num_pages > 1

\* C20: a request for a page outside 0 .. num_pages - 1 raises
\* PaginationError and returns nothing; a request inside it returns the page
\* of that index, or its text, and raises nothing.
C20_OutOfRangeRaises ==
    page_result # NoRequest =>
        IF page_result.index \in 0..num_pages - 1
        THEN /\ page_result.kind \in {"page", "content"}
             /\ page_result.page = page_result.index
        ELSE /\ page_result.kind = "PaginationError"
             /\ page_result.page = -1

\* C20's case: the page one past the last page of a document of several
\* pages was asked for, and the request raised.
C20_Witness ==
    /\ num_pages > 1
    /\ page_result.kind = "PaginationError"
    /\ page_result.index = num_pages

----------------------------------------------------------------------------
(* Properties of the structural navigation.                                *)

\* The last call announced an element it found forward of where it looked.
LastFoundForward ==
    /\ announced.msg = "element"
    /\ latest # None
    /\ latest[2][1][1] > latest[1]

\* C7: a request made where the remembered request was made, and resolving to
\* the remembered result, is answered as the same request made from the stop
\* of the found range: the found element is not announced, and what is
\* announced and remembered is what the request finds from the stop.
C7_RepeatReissues ==
    [][(latest # None /\ latest[1] = cursor /\ requested_at' = cursor) =>
          \A element_type \in ReqKinds, forward \in BOOLEAN :
              LET pos == Locate(element_type, forward, cursor)
                  stop == pos[1][2]
                  again == Locate(element_type, forward, stop)
              IN  (/\ pos # None
                   /\ latest = <<cursor, pos>>
                   /\ Navigate(element_type, forward))
                  => /\ announced' # ElementMessage(pos)
                     /\ ~nav_raised'
                     /\ IF again = None
                        THEN /\ cursor' = stop
                             /\ latest' = latest
                             /\ announced' = NoElementMessage(element_type, forward)
                        ELSE /\ cursor' = TargetPosition(again)
                             /\ latest' = <<stop, again>>
                             /\ announced' = ElementMessage(again)]_vars

\* C7's case: the last call began at one position and announced what it
\* found from another, the stop of the range it had found before.
C7_Witness ==
    /\ announced.msg = "element"
    /\ requested_at >= 0
    /\ latest # None
    /\ latest[1] # requested_at
    /\ \E k \in 1..Len(elements) : elements[k].stop = latest[1]

\* C8: a forward call that follows a forward call, the caret not moved in
\* between, looks from a position strictly after the one the call before it
\* looked from, until a call finds nothing.
C8_ForwardAdvances ==
    [][\A element_type \in ReqKinds :
          (/\ requested_at >= 0
           /\ LastFoundForward
           /\ Matches(element_type, announced.label)
           /\ Navigate(element_type, TRUE)
           /\ announced'.msg = "element")
          => latest'[1] > latest[1]]_vars

\* C9: a "next" press made where the press before it was made, the caret
\* not moved in between, announces an element after the one announced
\* before, or that there is no next element.
C9_SecondPressLater ==
    [][\A element_type \in ReqKinds :
          (/\ requested_at = cursor
           /\ LastFoundForward
           /\ Matches(element_type, announced.label)
           /\ Navigate(element_type, TRUE))
          => \/ announced'.msg = "no_next"
             \/ /\ announced'.msg = "element"
                /\ announced'.position > announced.position]_vars

\* C10: a request made where the remembered request was made, and resolving
\* to another range than the remembered one, is announced and remembered.
C10_DifferentResultAnnounced ==
    [][(latest # None /\ latest[1] = cursor /\ requested_at' = cursor) =>
          \A element_type \in ReqKinds, forward \in BOOLEAN :
              LET pos == Locate(element_type, forward, cursor)
              IN  (/\ pos # None
                   /\ pos[1] # latest[2][1]
                   /\ Navigate(element_type, forward))
                  => /\ latest' = <<cursor, pos>>
                     /\ announced' = ElementMessage(pos)
                     /\ cursor' = TargetPosition(pos)]_vars

\* C10's case: the caret is where the remembered request was made, and a
\* request resolves from there to another range than the remembered one.
C10_Witness ==
    /\ reader_ready
    /\ ~nav_raised
    /\ latest # None
    /\ latest[1] = cursor
    /\ \E element_type \in ReqKinds, forward \in BOOLEAN :
           LET pos == Locate(element_type, forward, cursor)
           IN  pos # None /\ pos[1] # latest[2][1]

\* The state a call is made in when the caret is put at position at after
\* the step: the memento and the announcement as the step leaves them.
NavStateAfter(at) ==
    [cursor |-> at, latest |-> latest', announced |-> announced',
     raised |-> nav_raised']

\* C11: after a request of one kind made at a position has announced an
\* element, a request of another kind made at that position that resolves to
\* the same element announces it as a request that is no repeat does.
C11_OtherKindAnnounced ==
    [][\A element_type \in ReqKinds, other_type \in ReqKinds, forward \in BOOLEAN :
          LET pos == Locate(element_type, forward, cursor)
              next_call == NavCall(NavStateAfter(cursor), other_type, forward, 0)
          IN  (/\ other_type # element_type
               /\ pos # None
               /\ Locate(other_type, forward, cursor) = pos
               /\ Navigate(element_type, forward)
               /\ latest' = <<cursor, pos>>
               /\ latest' # latest)
              => /\ next_call.announced = ElementMessage(pos)
                 /\ next_call.latest = <<cursor, pos>>
                 /\ next_call.cursor = TargetPosition(pos)]_vars

\* C12: once the user has moved by a click on an item of the table of
\* contents, by go_to_position or by moving the caret, the next request that
\* finds an element is no repeat of a request made before the move: the
\* element is announced and remembered.
C12_NoRepeatAfterMove ==
    [][\A element_type \in ReqKinds, forward \in BOOLEAN :
          LET pos == Locate(element_type, forward, cursor)
          IN  (/\ requested_at = -1
               /\ latest # None
               /\ pos # None
               /\ Navigate(element_type, forward))
              => /\ announced' = ElementMessage(pos)
                 /\ latest' = <<cursor, pos>>]_vars

\* What a request made in the current state with a document loaded answers.
Answer(element_type, forward) == NavCall(NavState, element_type, forward, 0)

\* C13: a request that finds nothing from the cursor says "No next {item}"
\* or "No previous {item}" with the label of the requested kind, sends no
\* reading position, and leaves the cursor and the memento as they were.
C13_NoneChangesNothing ==
    (reader_ready /\ ~nav_raised) =>
        \A element_type \in ReqKinds, forward \in BOOLEAN :
            Locate(element_type, forward, cursor) = None
            => LET r == Answer(element_type, forward)
               IN  /\ r.announced.msg = (IF forward THEN "no_next" ELSE "no_previous")
                   /\ r.announced.label = element_type
                   /\ r.announced.position = -1
                   /\ r.cursor = cursor
                   /\ r.latest = latest
                   /\ ~r.raised

\* C13's case: a backward request made at the cursor found nothing, with an
\* earlier result remembered.
C13_Witness ==
    /\ announced.msg = "no_previous"
    /\ requested_at = cursor
    /\ latest # None
    /\ Locate(announced.label, FALSE, cursor) = None

\* An element of the text of the requested kind that lies on the asked side
\* of the position from.
Qualifies(e, element_type, forward, from) ==
    /\ Matches(element_type, e.kind)
    /\ IF forward THEN e.start > from ELSE e.stop < from

\* C14: the element a request announces is an element of the text of the
\* requested kind (or family) that lies strictly after the position it was
\* looked for from when forward, strictly before it when backward, and no
\* other such element lies between that position and it.
C14_NearestOfKind ==
    [][(requested_at' = cursor /\ announced'.msg = "element") =>
          \A element_type \in ReqKinds, forward \in BOOLEAN :
              LET from == latest'[1]
                  found == [kind |-> latest'[2][2],
                            start |-> latest'[2][1][1],
                            stop |-> latest'[2][1][2]]
              IN  \/ /\ \E k \in 1..Len(elements) : elements[k] = found
                     /\ Qualifies(found, element_type, forward, from)
                     /\ \A k \in 1..Len(elements) :
                            Qualifies(elements[k], element_type, forward, from)
                            => IF forward
                               THEN found.start <= elements[k].start
                               ELSE elements[k].stop <= found.stop
                  \/ ~Navigate(element_type, forward)]_vars

\* C14's case: a backward request for links from the end of the text has
\* announced a link, a heading lying between the link and the end.
C14_Witness ==
    /\ announced.msg = "element"
    /\ announced.label = "link"
    /\ requested_at = TextLen
    /\ latest # None
    /\ latest[1] = TextLen
    /\ \E k \in 1..Len(elements) :
           /\ elements[k].kind = "h1"
           /\ elements[k].start >= latest[2][1][2]
           /\ elements[k].stop < TextLen

\* C15: a request finds nothing from the cursor exactly when the text has no
\* element of the requested kind on the asked side of the cursor, and the
\* call does not raise; so it is with an empty text and with a kind the text
\* has no element of.
C15_NoneIffNoElement ==
    (reader_ready /\ ~nav_raised) =>
        \A element_type \in ReqKinds, forward \in BOOLEAN :
            LET r == Answer(element_type, forward)
            IN  /\ ~r.raised
                /\ (/\ r.announced = NoElementMessage(element_type, forward)
                    /\ r.cursor = cursor)
                   <=> ~\E k \in 1..Len(elements) :
                           Qualifies(elements[k], element_type, forward, cursor)

\* C15's case: a request for a heading from the start of a text that has
\* links and no heading has found nothing.
C15_Witness ==
    /\ announced = NoElementMessage("heading", TRUE)
    /\ requested_at = 0
    /\ cursor = 0
    /\ elements # <<>>
    /\ \A k \in 1..Len(elements) : elements[k].kind = "link"

\* A forward request of the kind from the remembered position found the
\* remembered element, and the caret is at the stop of that element.
AtStopOfForwardResult(element_type) ==
    /\ latest # None
    /\ latest[2][1][1] > latest[1]
    /\ cursor = latest[2][1][2]
    /\ Locate(element_type, TRUE, latest[1]) = latest[2]

\* The remembered element is the first of the text of the requested kind.
FirstQualifying(element_type) ==
    ~\E k \in 1..Len(elements) :
         /\ Matches(element_type, elements[k].kind)
         /\ elements[k].start < latest[2][1][1]

\* C16 as stated: a forward request from P having found X, a backward request
\* of that kind from the stop of X says there is none if X is the first
\* element of the kind, and else announces an element that ends at or before P.
C16_BackwardEndsBeforeP ==
    [][\A element_type \in ReqKinds :
          (/\ requested_at' = cursor
           /\ AtStopOfForwardResult(element_type)
           /\ Navigate(element_type, FALSE))
          => IF FirstQualifying(element_type)
             THEN announced' = NoElementMessage(element_type, FALSE)
             ELSE /\ announced'.msg = "element"
                  /\ latest'[2][1][2] <= latest[1]]_vars

\* C16 amended: the element announced starts at or before P.
C16_BackwardStartsBeforeP ==
    [][\A element_type \in ReqKinds :
          (/\ requested_at' = cursor
           /\ AtStopOfForwardResult(element_type)
           /\ Navigate(element_type, FALSE))
          => IF FirstQualifying(element_type)
             THEN announced'.msg = "no_previous"
             ELSE /\ announced'.msg = "element"
                  /\ latest'[1] = cursor
                  /\ latest'[2][1][1] <= latest[1]
                  /\ latest'[2][1][2] <= latest[2][1][1]]_vars

\* C16's case: a forward request from a position inside a heading found the
\* next heading, the caret is at the stop of the heading found, and the
\* heading before it ends after the position.
C16_Witness ==
    /\ reader_ready
    /\ AtStopOfForwardResult("heading")
    /\ LET back == Locate("heading", FALSE, cursor)
       IN  /\ back # None
           /\ back[1][1] <= latest[1]
           /\ back[1][2] > latest[1]

\* C22: a navigation that announces an element takes the presentation
\* policy of the kind found; the announced text is the whole line containing
\* the element when the whole text is to be spoken and exactly the found
\* range otherwise; the cursor is put at the element's start, or at the start
\* of the line containing stop - 1 when it is to go to the start of the line,
\* and so never beyond the element's stop.
C22_AnnouncedByPolicy ==
    [][(requested_at' = cursor /\ announced'.msg = "element") =>
          LET start == latest'[2][1][1]
              stop == latest'[2][1][2]
              actual_element_type == latest'[2][2]
              policy == options[actual_element_type]
          IN  /\ announced'.label = actual_element_type
              /\ announced'.text =
                     IF policy.should_speak_whole_text
                     THEN ContainingLine(start)
                     ELSE <<start, stop>>
              /\ cursor' = IF ~policy.move_to_start_of_line
                           THEN start
                           ELSE ContainingLine(stop - 1)[1]
              /\ cursor' <= stop]_vars

\* C23: the memento is None until a navigation announces an element; a
\* navigation that announces an element leaves it equal to (the insertion
\* point its request was made at, (found range, found kind)), the request
\* being the re-issued one, made at the stop of the remembered range, after a
\* repeat; and nothing else changes it: not a None result, not a request
\* while the reader is not ready, not a repeat whose re-issue finds nothing,
\* not a move of the caret.
C23_MementoOfLastAnnounced ==
    [][IF requested_at' = cursor /\ announced'.msg = "element"
       THEN LET from == IF latest # None /\ latest[1] = cursor
                             /\ latest'[1] # cursor
                        THEN latest[2][1][2]
                        ELSE cursor
                found == latest'[2]
            IN  /\ latest'[1] = from
                /\ \E k \in 1..Len(elements) :
                       found = <<<<elements[k].start, elements[k].stop>>,
                                 elements[k].kind>>
                /\ announced' = ElementMessage(found)
       ELSE latest' = latest]_vars

\* A repeat whose re-issued request found nothing: the caret is at the stop
\* of the remembered range and the memento is what it was.
C23_Witness ==
    /\ latest # None
    /\ announced.msg \in {"no_next", "no_previous"}
    /\ requested_at = latest[1]
    /\ cursor = latest[2][1][2]

RECURSIVE PreOrder(_, _)
PreOrder(children, list) ==
    IF list = <<>>
    THEN <<>>
    ELSE <<Head(list)>> \o PreOrder(children, children[Head(list)])
                       \o PreOrder(children, Tail(list))

\* C25: when the build completes, the depth-first pre-order walk of root's
\* descendants is the list of the outline's entries in outline order: every
\* entry has exactly one section, none is dropped and none is duplicated.
C25_PreOrderIsOutline ==
    TocBuilt =>
        PreOrder(toc_tree.children, toc_tree.children[0])
            = [i \in 1..Len(toc_info) |-> i]

\* A tree three levels deep that comes back to level 1.
C25_Witness ==
    /\ TocBuilt
    /\ Len(toc_info) = 4
    /\ toc_tree.children[0] = <<1, 4>>
    /\ toc_tree.children[1] = <<2>>
    /\ toc_tree.children[2] = <<3>>

----------------------------------------------------------------------------
(* Repeated reads of the section tree.                                     *)

\* C21: the tree is built at most once per document, and a read after the
\* first returns the tree object of the first build as it is now, changes
\* to a section's Pager.current included, without running the body again.
C21_BuiltOnce ==
    [][/\ toc_builds' <= 1
       /\ toc_read' # toc_read =>
              /\ toc_read' = toc_tree'
              /\ toc_read'.object = 1
              /\ TocBuilt => toc_builds' = toc_builds /\ toc_tree' = toc_tree]_vars

\* A read after the first returned a tree in which a section's current page
\* is no longer its first page.
C21_Witness ==
    /\ toc_builds = 1
    /\ toc_read # <<>>
    /\ \E s \in DOMAIN toc_read.pager :
           /\ s > 0
           /\ toc_read.pager[s].current # toc_read.pager[s].first

----------------------------------------------------------------------------
(* Properties of the speech engine.                                        *)

IsPrefix(s, t) == Len(s) <= Len(t) /\ SubSeq(t, 1, Len(s)) = s

\* C26: stop() returns, and when it returns the queue is empty and no task
\* is in the hands of the background thread, the silence flag is set and the
\* state is ready; no audio is fed and no bookmark is delivered for a task
\* put before a stop() that has returned, also when the background thread
\* was past its silence test as stop() set the flag.
C26_StopReturnsQuiet ==
    /\ [][/\ ~history'.late
          /\ (caller.pc = "join" /\ caller'.pc = "idle") =>
                 /\ bgQueue' = <<>>
                 /\ bg'.pc = "get"
                 /\ silence'
                 /\ sink_state' = "ready"]_vars
    /\ (caller.pc \in {"drain", "join"}) ~> (caller.pc = "idle")

\* stop() has returned after it set the flag while the background thread was
\* past the silence test of a task.
C26_Witness ==
    /\ history.raced
    /\ history.stops = 1
    /\ caller.pc = "idle"
    /\ sink_state = "ready"

\* The bookmarks of the utterance of a call among marks.
MarksOf(marks, call) == SelectSeq(marks, LAMBDA mark : mark[1] = call)

\* C27: with no stop() and no pause(), the bookmarks are delivered once each
\* in the order they were put and the state is busy when a bookmark is
\* delivered; when the background thread ends the on_state_changed of the
\* DoneSpeaking of an utterance, every bookmark of the utterance has been
\* delivered and the state is ready; and every task put is taken and ended:
\* in the end the queue is empty and the thread waits.
C27_UtteranceProcessed ==
    /\ [][/\ IsPrefix(delivered', expected')
          /\ Len(delivered') > Len(delivered) => sink_state = "busy"
          /\ (/\ bg.task.type = "DoneSpeaking"
              /\ bg.pc \in {"test", "set"}
              /\ bg'.pc \in {"notify", "task_done"}) =>
                 /\ MarksOf(delivered, bg.task.call)
                        = MarksOf(expected, bg.task.call)
                 /\ sink_state' = "ready"]_vars
    /\ <>[](bgQueue = <<>> /\ bg.pc = "get")

\* The two bookmarks of one utterance were delivered and the thread waits
\* for the next task with the state ready.
C27_Witness ==
    /\ delivered = <<<<1, 1>>, <<1, 2>>>>
    /\ bgQueue = <<>>
    /\ bg.pc = "get"
    /\ sink_state = "ready"

\* A thread is between the test of on_state_changed and the end of the call.
InStateChange ==
    bg.pc \in {"set", "notify"} \/ caller.pc \in {"set", "notify"}

\* C28: a state_changed notification never carries the state of the
\* notification before it, and when no call of on_state_changed is under way
\* the state of the last notification is EventSink._state.
C28_NotifiedOnChange ==
    [][/\ (\/ bg.pc = "notify" /\ bg'.pc # "notify"
           \/ caller.pc = "notify" /\ caller'.pc # "notify") =>
              notified' # notified
       /\ (~InStateChange' /\ notified' # "none") => notified' = sink_state']_vars

\* C29: speak_utterance leaves the speech options as they were before the
\* call, whatever start_voice, end_voice, start_prosody and end_prosody
\* elements the utterance has.
C29_OptionsRestored ==
    [][history'.calls > history.calls => speech_options' = speech_options]_vars

\* An utterance that left another voice and another rate than it found.
C29_Witness ==
    /\ history.calls = 1
    /\ history.left.voice # speech_options.voice
    /\ history.left.rate # speech_options.rate

\* The tasks the background thread has taken and not marked done.
InFlight == IF bg.pc \in {"get", "dead"} THEN 0 ELSE 1

\* C30: a task that raises does not end the background thread and leaves
\* the count of unfinished tasks equal to the tasks queued and in hand; the
\* bookmarks are still delivered in the order they were put, and a stop()
\* called after a task raised returns.
C30_RaiseIsCaught ==
    /\ [](bg.pc # "dead" /\ unfinished = Len(bgQueue) + InFlight)
    /\ [][IsPrefix(delivered', expected')]_vars
    /\ (history.raised_at > 0 /\ caller.pc \in {"drain", "join"})
           ~> (caller.pc = "idle")

\* A task raised before stop() was called, a bookmark put after it was
\* delivered, and stop() has returned.
C30_Witness ==
    /\ history.raised_at = 1
    /\ history.ran_after_raise
    /\ history.stops = 1
    /\ caller.pc = "idle"

----------------------------------------------------------------------------
(* Properties of opening a document.                                       *)

\* The step on which _document_read_callback runs for a read that ended
\* after the user dismissed the waiting dialog.
CallbackAfterDismissal ==
    /\ loader.pc = "completed"
    /\ loader.cancelled
    /\ loader'.pc # "completed"

\* C31: when the waiting dialog was dismissed before the read ended, the end
\* of the read does nothing to the view whatever the read gave:
\* load_document is not called, the callback is not invoked and the password
\* prompt is not opened.
C31_DismissedReadIsSilent ==
    [][CallbackAfterDismissal =>
           /\ view'.loaded = view.loaded
           /\ view'.callbacks = view.callbacks
           /\ view'.prompts = view.prompts]_vars

\* The step on which resolve_document is run: at once in open_uri, or by
\* the worker thread.
Resolution ==
    \/ loader.pc = "reading" /\ loader'.pc = "completed"
    \/ /\ loader'.opens > loader.opens
       /\ loader'.mode = "sync"
       /\ loader'.outcome # "unresolvable"

\* How many of the calls handed to wx.CallAfter are calls of call.
CountCalls(calls, call) == Len(SelectSeq(calls, LAMBDA c : c.call = call))

\* What a step handed to wx.CallAfter.
NewlyPending == SubSeq(pending', Len(pending) + 1, Len(pending'))

\* C32: resolve_document returns the document when the read succeeds; on an
\* exception other than DecryptionRequired, outside debug mode, it returns
\* None and schedules one notification and one unloadCurrentEbook, and
\* load_document is not called for it, at once or in the dialog's callback;
\* DecryptionRequired is raised to the caller with nothing scheduled.
C32_ResolveDocument ==
    [][/\ Resolution =>
             /\ SubSeq(pending', 1, Len(pending)) = pending
             /\ loader'.outcome = "document" =>
                    /\ loader'.result = [returns |-> "document", raises |-> "None"]
                    /\ NewlyPending = <<>>
             /\ loader'.outcome = "DecryptionRequired" =>
                    /\ loader'.result.raises = "DecryptionRequired"
                    /\ NewlyPending = <<>>
             /\ (loader'.outcome \notin {"document", "DecryptionRequired"}
                 /\ ~debug) =>
                    /\ loader'.result = NoResult
                    /\ Len(NewlyPending) = 2
                    /\ CountCalls(NewlyPending, "notify_user") = 1
                    /\ CountCalls(NewlyPending, "unloadCurrentEbook") = 1
                    /\ view'.loaded = view.loaded
       /\ (/\ loader.pc = "completed"
           /\ loader.outcome \notin {"document", "DecryptionRequired"}) =>
              view'.loaded = view.loaded]_vars

\* A read behind the waiting dialog failed outside debug mode, its callback
\* has run and the notification and the unload are still to be run.
C32_Witness ==
    /\ ~debug
    /\ loader.mode = "async"
    /\ loader.pc = "idle"
    /\ loader.outcome = "UnsupportedDocumentError"
    /\ loader.result = NoResult
    /\ Len(pending) = 2
    /\ view.loaded = 0

----------------------------------------------------------------------------
(* Properties of the handlers of the table-of-contents tree.               *)

\* C33: while a handler is inside mute_page_and_section_speech both
\* settings are False, and when a handler leaves it, its body ended or
\* raised, nested or not, both settings are what they were when it entered;
\* so after onTOCItemClick or onTocTreeFocus they are what they were before
\* the event.
C33_MutedThenRestored ==
    /\ [](frames # <<>> => conf = Muted)
    /\ [][Len(frames') < Len(frames) => conf' = Top.entry]_vars

\* A handler whose body raised has been left, with the page setting on and
\* the section setting off as they were before the event.
C33_Witness ==
    /\ last_exit = "raised"
    /\ frames = <<>>
    /\ conf = Settings(TRUE, FALSE)

=============================================================================
